---- MODULE Spec2Model ----
(***************************************************************************)
(* Model of scripts/extract_deck.py: the .apkg extraction pipeline (main), *)
(* the protobuf varint and media-manifest decoders, and the note-field     *)
(* sanitizer.  Byte buffers are sequences of integers 0..255 indexed from  *)
(* 0 as in the source (data[pos] is written At(data, pos)).  Note fields   *)
(* are sequences of lexical tokens, each standing for a fixed piece of     *)
(* text ("<", ">", "img", "src='a'", "&lt;", ...); the regular             *)
(* expressions of the source are evaluated on those tokens.                *)
(***************************************************************************)
EXTENDS Integers, Sequences, FiniteSets, TLC

VARIABLES
    pc,              \* position of main: the stage it is about to execute
    run,             \* number of the current run of main (1-based)
    archive,         \* the .apkg the current run reads
    tmp_files,       \* the temporary .sqlite files on disk: run that made
                     \* it -> the database written to it
    rows,            \* result of the SELECT, not yet transformed
    notes,           \* Normalized Notes accumulated by the loop of main
    all_media_refs,  \* the Media Reference Set
    out_table,       \* deck.sqlite / source_notes: [exists, rows]
    media_dir,       \* MEDIA_DIR: [exists, files], files: filename -> bytes
    stray_files,     \* files written under OUTPUT_DIR but outside MEDIA_DIR
    manifest,        \* dict of parse_media_manifest
    decompressed,    \* buffer parse_media_manifest walks
    pos,             \* its cursor
    entry_idx,       \* its entry counter
    referenced,      \* main's `referenced`  (resolved filenames)
    unreferenced,    \* main's `unreferenced` (unresolved filenames)
    copied,          \* filenames the copy loop has handled so far
    failure,         \* the exception that ended the run and the stage it
                     \* was raised in; NoFailure while none was raised
    out_table0,      \* out_table when the current run started
    media_dir0,      \* media_dir when the current run started
    stray_files0,    \* stray_files when the current run started
    m_entries,       \* manifest entries the buffer was encoded from
    m_wellformed,    \* the buffer is exactly the encoding of m_entries
    v_value,         \* varint harness: the integer that was encoded
    v_start,         \* varint harness: offset the encoding starts at
    v_result,        \* varint harness: what _read_varint returned
    raw,             \* sanitizer harness: the input field
    cleaned          \* sanitizer harness: clean_text(raw), or "pending"

vars == << pc, run, archive, tmp_files, rows, notes, all_media_refs,
           out_table, media_dir, stray_files, manifest, decompressed, pos,
           entry_idx, referenced, unreferenced, copied, failure,
           out_table0, media_dir0, stray_files0, m_entries, m_wellformed,
           v_value, v_start, v_result, raw, cleaned >>

pipeline_vars == << run, archive, tmp_files, rows, notes, all_media_refs,
                    out_table, media_dir, stray_files, referenced,
                    unreferenced, copied, out_table0, media_dir0,
                    stray_files0 >>

input_vars == << run, archive, out_table0, media_dir0, stray_files0 >>

output_vars == << out_table, media_dir, stray_files >>

local_vars == << rows, notes, all_media_refs, referenced, unreferenced,
                 copied >>

parser_vars == << manifest, decompressed, pos, entry_idx >>

harness_vars == << m_entries, m_wellformed, v_value, v_start, v_result,
                   raw, cleaned >>

(***************************************************************************)
(* Bounds of the model.                                                    *)
(***************************************************************************)
MaxVarint == 16500         \* largest integer the varint harness encodes
MaxStart == 2            \* largest start offset of the varint harness
MaxEntries == 3          \* manifest entries per generated manifest
MaxGarbage == 3          \* length of the arbitrary buffers of the decoder
MaxFieldLen == 4         \* tokens per generated field of the sanitizer
MaxRuns == 2             \* runs of main in one behaviour

(***************************************************************************)
(* Program constants.                                                      *)
(***************************************************************************)
\* the note-type identifier exceeds 32 bits; identifiers are only compared
ANKING_MODEL_ID == "1659130414530"
IDX_TEXT == 0
IDX_EXTRA == 1
IDX_ONE_BY_ONE == 16
TAG_FIELD1 == 10         \* 0x0A: field 1, wire type 2
CONT_BIT == 128          \* 0x80
LOW7 == 127              \* 0x7F
SHIFT_STEP == 7

(***************************************************************************)
(* Integer bit operations of Python on non-negative integers.              *)
(***************************************************************************)
RECURSIVE BitAnd(_, _)
BitAnd(a, b) ==
    IF a = 0 \/ b = 0 THEN 0
    ELSE (IF a % 2 = 1 /\ b % 2 = 1 THEN 1 ELSE 0)
         + 2 * BitAnd(a \div 2, b \div 2)

RECURSIVE BitOr(_, _)
BitOr(a, b) ==
    IF a = 0 THEN b
    ELSE IF b = 0 THEN a
    ELSE (IF a % 2 = 1 \/ b % 2 = 1 THEN 1 ELSE 0)
         + 2 * BitOr(a \div 2, b \div 2)

RECURSIVE ShiftLeft(_, _)
ShiftLeft(a, n) == IF n = 0 THEN a ELSE ShiftLeft(2 * a, n - 1)

\* data[pos] of a bytes object, pos counted from 0
At(data, p) == data[p + 1]

\* data[lo:hi] of a bytes object: the slice is clamped to the buffer
Slice(data, lo, hi) ==
    LET h == IF hi > Len(data) THEN Len(data) ELSE hi
    IN  IF lo >= h THEN << >> ELSE SubSeq(data, lo + 1, h)

(***************************************************************************)
(* _read_varint(data, pos): returns (value, new_pos); data[pos] past the   *)
(* end of the buffer raises IndexError.                                    *)
(***************************************************************************)
\* (a decoder that forgets the shift: every byte lands in the low 7 bits)
VarintAccumulateNoShift(value, byte, shift) ==
    BitOr(value, BitAnd(byte, LOW7))

\* value |= (data[pos] & 0x7F) << shift
VarintAccumulate(value, byte, shift) ==
    BitOr(value, ShiftLeft(BitAnd(byte, LOW7), shift))

RECURSIVE read_varint_loop(_, _, _, _)
read_varint_loop(data, p, value, shift) ==
    IF p >= Len(data)
    THEN [ok |-> FALSE, value |-> 0, pos |-> p]
    ELSE IF BitAnd(At(data, p), CONT_BIT) # 0
    THEN read_varint_loop(data, p + 1,
                          VarintAccumulate(value, At(data, p), shift),
                          shift + SHIFT_STEP)
    ELSE [ok |-> TRUE,
          value |-> VarintAccumulate(value, At(data, p), shift),
          pos |-> p + 1]

read_varint(data, p) == read_varint_loop(data, p, 0, 0)

(***************************************************************************)
(* bytes.decode("utf-8").  The buffers of the model hold ASCII bytes and   *)
(* the continuation byte 0x80; a byte >= 0x80 that no lead byte announces  *)
(* is invalid UTF-8 and raises UnicodeDecodeError.                         *)
(***************************************************************************)
AsciiChar(b) ==
    CASE b = 97 -> "a"
      [] b = 98 -> "b"
      [] b = 99 -> "c"
      [] b = 46 -> "."
      [] b = 47 -> "/"
      [] OTHER  -> "\\x" \o ToString(b)

Utf8Valid(bytes) == \A i \in 1..Len(bytes) : bytes[i] < CONT_BIT

RECURSIVE Utf8Decode(_)
Utf8Decode(bytes) ==
    IF bytes = << >> THEN ""
    ELSE IF Len(bytes) = 1 THEN AsciiChar(bytes[1])
    ELSE LET h == Len(bytes) \div 2
         IN  Utf8Decode(SubSeq(bytes, 1, h))
                 \o Utf8Decode(SubSeq(bytes, h + 1, Len(bytes)))

\* manifest[str(entry_idx)] = filename
DictSet(d, k, v) == [x \in DOMAIN d \cup {k} |-> IF x = k THEN v ELSE d[x]]

EmptyDict == [x \in {} |-> ""]

(***************************************************************************)
(* One iteration of the while loop of parse_media_manifest, from cursor p  *)
(* with entry counter idx and dict man.  status is "next" (the iteration   *)
(* completed), "break" (unexpected leading tag byte), or the exception     *)
(* the iteration raises.                                                   *)
(***************************************************************************)
ParseResult(status, p, idx, man) ==
    [status |-> status, pos |-> p, entry_idx |-> idx, manifest |-> man]

\* pos = entry_end
ResumeAt(entry_end, inner_pos) == entry_end

\* (a decoder that advances the counter only when a filename was recorded)
NextEntryIdxOnSuccess(idx, recorded) == IF recorded THEN idx + 1 ELSE idx

\* entry_idx += 1
NextEntryIdx(idx, recorded) == idx + 1

parse_entry(data, p, idx, man) ==
    IF At(data, p) # TAG_FIELD1
    THEN ParseResult("break", p, idx, man)
    ELSE
      LET outer == read_varint(data, p + 1) IN
      IF ~outer.ok
      THEN ParseResult("IndexError", p, idx, man)
      ELSE
        LET entry_end == outer.pos + outer.value IN
        IF outer.pos < entry_end
        THEN
          IF outer.pos >= Len(data)
          THEN ParseResult("IndexError", p, idx, man)
          ELSE IF At(data, outer.pos) = TAG_FIELD1
          THEN
            LET name == read_varint(data, outer.pos + 1) IN
            IF ~name.ok
            THEN ParseResult("IndexError", p, idx, man)
            ELSE
              LET bytes == Slice(data, name.pos, name.pos + name.value) IN
              IF ~Utf8Valid(bytes)
              THEN ParseResult("UnicodeDecodeError", p, idx, man)
              ELSE ParseResult("next",
                               ResumeAt(entry_end, name.pos + name.value),
                               NextEntryIdx(idx, TRUE),
                               DictSet(man, ToString(idx), Utf8Decode(bytes)))
          ELSE ParseResult("next", ResumeAt(entry_end, outer.pos),
                           NextEntryIdx(idx, FALSE), man)
        ELSE ParseResult("next", ResumeAt(entry_end, outer.pos),
                         NextEntryIdx(idx, FALSE), man)

(***************************************************************************)
(* The protobuf encoding the decoders read: a varint is little-endian      *)
(* base 128 with the high bit set on every byte but the last; a manifest   *)
(* is a sequence of length-delimited field-1 entries.  An entry descriptor *)
(* is [inner, name, rest]: with inner, the body starts with field 1 (the   *)
(* filename, bytes `name`); rest are the bytes of the fields after it.     *)
(***************************************************************************)
RECURSIVE EncodeVarint(_)
EncodeVarint(v) ==
    IF v < CONT_BIT THEN << v >>
    ELSE << (v % CONT_BIT) + CONT_BIT >> \o EncodeVarint(v \div CONT_BIT)

EntryBody(e) ==
    IF e.inner
    THEN << TAG_FIELD1 >> \o EncodeVarint(Len(e.name)) \o e.name \o e.rest
    ELSE e.rest

EncodeEntry(e) ==
    << TAG_FIELD1 >> \o EncodeVarint(Len(EntryBody(e))) \o EntryBody(e)

RECURSIVE EncodeManifest(_)
EncodeManifest(es) ==
    IF es = << >> THEN << >>
    ELSE EncodeEntry(Head(es)) \o EncodeManifest(Tail(es))

\* offset at which entry number i (0-based) starts in EncodeManifest(es)
EntryOffset(es, i) == Len(EncodeManifest(SubSeq(es, 1, i)))

\* the dict a gapless positional numbering of the first n entries gives
ExpectedManifest(es, n) ==
    [k \in {ToString(i - 1) : i \in {j \in 1..n : es[j].inner}} |->
        LET i == CHOOSE j \in 1..n : ToString(j - 1) = k
        IN  Utf8Decode(es[i].name)]

NameA == << 97 >>
NameB == << 98 >>
NameC == << 99 >>
NameUpA == << 46, 46, 47, 97 >>        \* "../a"
SizeField == << 16, 1 >>               \* field 2 (varint) = 1

Entry(inner, name, rest) == [inner |-> inner, name |-> name, rest |-> rest]

EntryPool ==
    { Entry(TRUE, NameA, << >>), Entry(TRUE, NameB, SizeField),
      Entry(TRUE, NameUpA, << >>),
      Entry(FALSE, << >>, << >>), Entry(FALSE, << >>, SizeField) }

Repeat(x, n) == [i \in 1..n |-> x]

\* an entry whose length prefixes take two varint bytes (128-byte name)
LongEntry == Entry(TRUE, Repeat(97, CONT_BIT), << >>)

SeqsUpTo(S, n) == UNION { [1..k -> S] : k \in 0..n }

ByteAlphabet == { 0, 1, 2, TAG_FIELD1, 97, CONT_BIT }

(***************************************************************************)
(* Values the variables of a part of the model hold while another part is  *)
(* being exercised.                                                        *)
(***************************************************************************)
NoArchive ==
    [exists |-> FALSE, names |-> {},
     anki21b |-> [zstd_ok |-> FALSE, query_ok |-> FALSE, notes |-> << >>],
     anki2 |-> [query_ok |-> FALSE, notes |-> << >>],
     media |-> [zstd_ok |-> FALSE, bytes |-> << >>]]

AbsentTable == [exists |-> FALSE, rows |-> {}]

AbsentDir == [exists |-> FALSE, files |-> EmptyDict]

PipelineIdle ==
    /\ run = 0 /\ archive = NoArchive
    /\ rows = << >> /\ notes = << >> /\ all_media_refs = {}
    /\ tmp_files = EmptyDict
    /\ out_table = AbsentTable /\ media_dir = AbsentDir
    /\ stray_files = EmptyDict
    /\ referenced = {} /\ unreferenced = {} /\ copied = {}
    /\ out_table0 = AbsentTable /\ media_dir0 = AbsentDir
    /\ stray_files0 = EmptyDict

ParserIdle ==
    /\ manifest = EmptyDict /\ decompressed = << >>
    /\ pos = 0 /\ entry_idx = 0

ManifestHarnessIdle == m_entries = << >> /\ m_wellformed = FALSE

VarintHarnessIdle == v_value = 0 /\ v_start = 0 /\ v_result = "pending"

CleanHarnessIdle == raw = << >> /\ cleaned = "pending"

NoFailure == [exc |-> "", stage |-> ""]

\* an exception propagates out of main: the run is over
Raise(exc) == pc' = "Failed" /\ failure' = [exc |-> exc, stage |-> pc]

(***************************************************************************)
(* parse_media_manifest, one loop iteration per step.  In main it runs     *)
(* between the write of the table and the resolution of the references.    *)
(***************************************************************************)
ParseStep ==
    /\ pc = "DecodeManifest"
    /\ pos < Len(decompressed)
    /\ LET r == parse_entry(decompressed, pos, entry_idx, manifest) IN
         /\ pos' = r.pos
         /\ entry_idx' = r.entry_idx
         /\ manifest' = r.manifest
         /\ pc' = CASE r.status = "next"  -> "DecodeManifest"
                    [] r.status = "break" -> "ResolveMedia"
                    [] OTHER              -> "Failed"
         /\ failure' = IF r.status \in {"next", "break"} THEN NoFailure
                        ELSE [exc |-> r.status, stage |-> pc]
    /\ UNCHANGED << decompressed, pipeline_vars, harness_vars >>

ParseEnd ==
    /\ pc = "DecodeManifest"
    /\ pos >= Len(decompressed)
    /\ pc' = "ResolveMedia"
    /\ UNCHANGED << failure, parser_vars, pipeline_vars, harness_vars >>

(***************************************************************************)
(* Specification of the manifest decoder alone, over every truncation of   *)
(* the encoding of a bounded entry list, and over every short buffer of    *)
(* arbitrary bytes.                                                        *)
(***************************************************************************)
GeneratedManifests ==
    SeqsUpTo(EntryPool, MaxEntries)
        \cup { << LongEntry >>, << LongEntry, Entry(TRUE, NameB, << >>) >> }

InitManifest ==
    /\ pc = "DecodeManifest" /\ failure = NoFailure
    /\ pos = 0 /\ entry_idx = 0 /\ manifest = EmptyDict
    /\ \/ \E es \in GeneratedManifests :
            \E cut \in 0..Len(EncodeManifest(es)) :
               /\ decompressed = SubSeq(EncodeManifest(es), 1, cut)
               /\ m_entries = es
               /\ m_wellformed = (cut = Len(EncodeManifest(es)))
       \/ \E es \in SeqsUpTo(EntryPool, 1) :
            \E g \in SeqsUpTo(ByteAlphabet, MaxGarbage) :
               /\ g # << >>
               /\ decompressed = EncodeManifest(es) \o g
               /\ m_entries = es
               /\ m_wellformed = FALSE
    /\ PipelineIdle /\ VarintHarnessIdle /\ CleanHarnessIdle

NextManifest == ParseStep \/ ParseEnd

SpecManifest == InitManifest /\ [][NextManifest]_vars

(***************************************************************************)
(* Specification of _read_varint alone: the encoding of v_value is placed  *)
(* at offset v_start, between continuation bytes, and decoded.             *)
(***************************************************************************)
InitVarint ==
    /\ pc = "ReadVarint" /\ failure = NoFailure
    /\ v_value \in 0..MaxVarint
    /\ v_start \in 0..MaxStart
    /\ v_result = "pending"
    /\ decompressed =
         Repeat(CONT_BIT, v_start) \o EncodeVarint(v_value) \o << CONT_BIT >>
    /\ pos = 0 /\ entry_idx = 0 /\ manifest = EmptyDict
    /\ PipelineIdle /\ ManifestHarnessIdle /\ CleanHarnessIdle

VarintDecode ==
    /\ pc = "ReadVarint"
    /\ v_result' = read_varint(decompressed, v_start)
    /\ pc' = "VarintDone"
    /\ UNCHANGED << failure, parser_vars, pipeline_vars, m_entries,
                    m_wellformed, v_value, v_start, raw, cleaned >>

NextVarint == VarintDecode

SpecVarint == InitVarint /\ [][NextVarint]_vars

(***************************************************************************)
(* C10: decoding the base-128 encoding of v at any start offset returns v  *)
(* and the offset just past the encoded bytes.                             *)
(***************************************************************************)
C10_VarintRoundTrip ==
    pc = "VarintDone" =>
        /\ v_result.ok
        /\ v_result.value = v_value
        /\ v_result.pos = v_start + Len(EncodeVarint(v_value))

C10_Witness ==
    /\ pc = "VarintDone"
    /\ v_start > 0
    /\ Len(EncodeVarint(v_value)) = 3

(***************************************************************************)
(* C5: on a well-formed manifest the decoder numbers the entries 0..n-1    *)
(* by position: after k iterations the counter is k, the cursor is at the  *)
(* declared end of entry k-1, exactly the entries with an inner field 1    *)
(* have a filename under their own position, and the loop ends with the    *)
(* counter at the number of entries.                                       *)
(***************************************************************************)
C5_SlotsArePositional ==
    m_wellformed =>
        /\ pc \in {"DecodeManifest", "ResolveMedia"}
        /\ entry_idx <= Len(m_entries)
        /\ pos = EntryOffset(m_entries, entry_idx)
        /\ manifest = ExpectedManifest(m_entries, entry_idx)
        /\ pc = "ResolveMedia" => entry_idx = Len(m_entries)

C5_Witness ==
    /\ m_wellformed
    /\ pc = "ResolveMedia"
    /\ entry_idx = 3
    /\ ~m_entries[2].inner
    /\ m_entries[1].inner /\ m_entries[3].inner
    /\ DOMAIN manifest = {"0", "2"}

(***************************************************************************)
(* C6 (as claimed): whatever the buffer, truncated or ending in garbage,   *)
(* the decoder never raises because it ran off the end of the buffer.      *)
(***************************************************************************)
C6_TruncationNeverRaises == failure.exc # "IndexError"

(***************************************************************************)
(* Note fields.  A field is a sequence of tokens; the tokens and the text  *)
(* each stands for:                                                        *)
(*   "<" ">" "img" "p" "/p" "See" "here"   themselves                      *)
(*   " " "\n"                   one whitespace character                   *)
(*   "src='a'" ...              a quoted src attribute naming file a       *)
(*   "&lt;" "&gt;"              the character entities                     *)
(*   "[sound:b]"                an audio reference naming file b           *)
(*   "{{c1::" "{{c2::" "}}"     cloze markup                               *)
(*   "#IMG<i>#"                 the placeholder "\x00IMG<i>\x00"           *)
(***************************************************************************)
SrcTokens == { "src='a'", "src='c'", "src='../a'", "src='x.png'" }

SrcName(tok) ==
    CASE tok = "src='a'"     -> "a"
      [] tok = "src='c'"     -> "c"
      [] tok = "src='../a'"  -> "../a"
      [] tok = "src='x.png'" -> "x.png"

SoundTokens == { "[sound:b]" }

SoundName(tok) == CASE tok = "[sound:b]" -> "b"

ClozeTokens == { "{{c1::", "{{c2::" }

ClozeNum(tok) == CASE tok = "{{c1::" -> "1" [] tok = "{{c2::" -> "2"

Whitespace == { " ", "\n" }

\* index of the first ">" at or after position i, or 0
FirstGt(t, i) ==
    IF \E j \in i..Len(t) : t[j] = ">"
    THEN CHOOSE j \in i..Len(t) :
            t[j] = ">" /\ \A k \in i..(j - 1) : t[k] # ">"
    ELSE 0

(***************************************************************************)
(* RE_IMG_TAG  <img\s[^>]*?src\s*=\s*["']([^"']+)["'][^>]*?>  anchored at  *)
(* position i: the index of the last token of the match, or 0.  Nothing    *)
(* the pattern consumes can be a ">", so a match ends at the first ">"     *)
(* after "<img<space>" and needs a quoted src attribute before it.         *)
(***************************************************************************)
ImgMatchEnd(t, i) ==
    IF /\ i + 2 <= Len(t)
       /\ t[i] = "<" /\ t[i + 1] = "img" /\ t[i + 2] \in Whitespace
    THEN LET e == FirstGt(t, i + 3) IN
         IF e # 0 /\ \E k \in (i + 3)..(e - 1) : t[k] \in SrcTokens
         THEN e ELSE 0
    ELSE 0

\* group(1) of the match at i: the lazy prefix stops at the first src
ImgMatchSrc(t, i) ==
    LET e == ImgMatchEnd(t, i)
        k == CHOOSE k \in (i + 3)..(e - 1) :
                /\ t[k] \in SrcTokens
                /\ \A j \in (i + 3)..(k - 1) : t[j] \notin SrcTokens
    IN  SrcName(t[k])

\* the matches of RE_IMG_TAG in t from position i on, leftmost first,
\* non-overlapping, as (start, end) pairs
RECURSIVE ImgMatches(_, _)
ImgMatches(t, i) ==
    IF i > Len(t) THEN << >>
    ELSE IF ImgMatchEnd(t, i) # 0
    THEN << << i, ImgMatchEnd(t, i) >> >> \o ImgMatches(t, ImgMatchEnd(t, i) + 1)
    ELSE ImgMatches(t, i + 1)

Placeholder(i) == "#IMG" \o ToString(i) \o "#"

\* RE_IMG_TAG.sub(_save_img, raw): [text, img_placeholders]
RECURSIVE SaveImgs(_, _, _)
SaveImgs(t, i, saved) ==
    IF i > Len(t) THEN [text |-> << >>, saved |-> saved]
    ELSE IF ImgMatchEnd(t, i) # 0
    THEN LET e == ImgMatchEnd(t, i)
             r == SaveImgs(t, e + 1, Append(saved, SubSeq(t, i, e)))
         IN  [text |-> << Placeholder(Len(saved)) >> \o r.text,
              saved |-> r.saved]
    ELSE LET r == SaveImgs(t, i + 1, saved)
         IN  [text |-> << t[i] >> \o r.text, saved |-> r.saved]

\* html.unescape on the tokens of the model
UnescapeToken(tok) ==
    CASE tok = "&lt;" -> "<"
      [] tok = "&gt;" -> ">"
      [] OTHER        -> tok

Unescape(t) == [i \in 1..Len(t) |-> UnescapeToken(t[i])]

\* RE_HTML_TAG.sub("", text):  <[^>]+>  needs one character or more
\* between the "<" and the first ">" after it
RECURSIVE StripTags(_, _)
StripTags(t, i) ==
    IF i > Len(t) THEN << >>
    ELSE IF t[i] = "<" /\ FirstGt(t, i + 1) > i + 1
    THEN StripTags(t, FirstGt(t, i + 1) + 1)
    ELSE << t[i] >> \o StripTags(t, i + 1)

\* text.replace(placeholder, img): every occurrence
RECURSIVE ReplaceToken(_, _, _)
ReplaceToken(t, tok, by) ==
    IF t = << >> THEN << >>
    ELSE (IF Head(t) = tok THEN by ELSE << Head(t) >>)
             \o ReplaceToken(Tail(t), tok, by)

\* for i, img in enumerate(img_placeholders): text = text.replace(...)
RECURSIVE RestoreImgs(_, _, _)
RestoreImgs(t, saved, i) ==
    IF i >= Len(saved) THEN t
    ELSE RestoreImgs(ReplaceToken(t, Placeholder(i), saved[i + 1]),
                     saved, i + 1)

\* str.strip()
RECURSIVE StripWs(_)
StripWs(t) ==
    IF t = << >> THEN t
    ELSE IF Head(t) \in Whitespace THEN StripWs(Tail(t))
    ELSE IF t[Len(t)] \in Whitespace THEN StripWs(SubSeq(t, 1, Len(t) - 1))
    ELSE t

\* RE_MULTI_NEWLINE.sub("\n\n", text): a run of 3 or more becomes 2
RECURSIVE CollapseNewlines(_, _)
CollapseNewlines(t, i) ==
    IF i > Len(t) THEN << >>
    ELSE IF t[i] = "\n" /\ i >= 3 /\ t[i - 1] = "\n" /\ t[i - 2] = "\n"
    THEN CollapseNewlines(t, i + 1)
    ELSE << t[i] >> \o CollapseNewlines(t, i + 1)

clean_text(raw_field) ==
    LET saved == SaveImgs(raw_field, 1, << >>)
        text1 == Unescape(saved.text)
        text2 == StripTags(text1, 1)
        text3 == RestoreImgs(text2, saved.saved, 0)
    IN  CollapseNewlines(StripWs(text3), 1)

count_cloze_numbers(text) ==
    Cardinality({ ClozeNum(text[i]) :
                    i \in { j \in 1..Len(text) : text[j] \in ClozeTokens } })

is_one_by_one_truthy(value) == StripWs(StripTags(value, 1)) # << >>

FieldMediaRefs(fld) ==
    { ImgMatchSrc(fld, ImgMatches(fld, 1)[m][1]) :
        m \in 1..Len(ImgMatches(fld, 1)) }
    \cup { SoundName(fld[i]) :
             i \in { j \in 1..Len(fld) : fld[j] \in SoundTokens } }

collect_media_refs(text, extra) ==
    FieldMediaRefs(text) \cup FieldMediaRefs(extra)

(***************************************************************************)
(* Specification of clean_text alone, over every field made of at most     *)
(* MaxFieldLen pieces of markup and text, and the example of the           *)
(* documentation.                                                          *)
(***************************************************************************)
ImgA == << "<", "img", " ", "src='a'", ">" >>
ImgC == << "<", "img", " ", "src='c'", ">" >>
ImgUpA == << "<", "img", " ", "src='../a'", ">" >>
TagP == << "<", "p", ">" >>
SoundB == << "[sound:b]" >>

Pieces ==
    { ImgA, ImgC, TagP, SoundB, << "&lt;" >>, << "&gt;" >>, << "p" >>,
      << "\n" >>, << " " >> }

RECURSIVE Flatten(_)
Flatten(ss) == IF ss = << >> THEN << >> ELSE Head(ss) \o Flatten(Tail(ss))

ExampleField ==
    << "<", "p", ">", "See", " ", "<", "img", " ", "src='x.png'", ">",
       " ", "here", "<", "/p", ">" >>

ExampleCleaned ==
    << "See", " ", "<", "img", " ", "src='x.png'", ">", " ", "here" >>

GeneratedFields ==
    { Flatten(ss) : ss \in SeqsUpTo(Pieces, MaxFieldLen) } \cup { ExampleField }

InitClean ==
    /\ pc = "CleanText" /\ failure = NoFailure
    /\ raw \in GeneratedFields
    /\ cleaned = "pending"
    /\ PipelineIdle /\ ParserIdle /\ ManifestHarnessIdle /\ VarintHarnessIdle

CleanField ==
    /\ pc = "CleanText"
    /\ cleaned' = clean_text(raw)
    /\ pc' = "CleanDone"
    /\ UNCHANGED << failure, parser_vars, pipeline_vars, m_entries,
                    m_wellformed, v_value, v_start, v_result, raw >>

NextClean == CleanField

SpecClean == InitClean /\ [][NextClean]_vars

\* the image elements of a field, in order of occurrence
ImgElements(t) ==
    [m \in 1..Len(ImgMatches(t, 1)) |->
        SubSeq(t, ImgMatches(t, 1)[m][1], ImgMatches(t, 1)[m][2])]

\* the field holds no angle-bracket tag besides its image elements
NoTagButImgs(t) ==
    LET bare == SaveImgs(t, 1, << >>).text IN StripTags(bare, 1) = bare

(***************************************************************************)
(* C9 (as claimed): every image element of the input is in the output,     *)
(* verbatim and in the same order, and the output holds no other tag.      *)
(***************************************************************************)
C9_ImagesSurvive ==
    pc = "CleanDone" =>
        /\ ImgElements(cleaned) = ImgElements(raw)
        /\ NoTagButImgs(cleaned)

\* the example of the documentation comes out as documented
C9_ExampleHolds ==
    (pc = "CleanDone" /\ raw = ExampleField) => cleaned = ExampleCleaned

(***************************************************************************)
(* The .apkg archives main is run on.  A raw source record is              *)
(* [id, mid, flds, tags]; flds is the list flds.split(FIELD_SEP) yields,   *)
(* which has one element or more.                                          *)
(***************************************************************************)
OTHER_MODEL_ID == "1"

PlainField == << "p" >>

Flds(text, extra, total, marker) ==
    [i \in 1..total |->
        IF i = IDX_TEXT + 1 THEN text
        ELSE IF i = IDX_EXTRA + 1 THEN extra
        ELSE IF i = IDX_ONE_BY_ONE + 1 THEN marker
        ELSE PlainField]

SourceRecord(id, mid, flds, tags) ==
    [id |-> id, mid |-> mid, flds |-> flds, tags |-> tags]

ClozeText ==
    << "{{c1::", "p", "}}", "{{c2::", "p", "}}", "{{c1::", "p", "}}" >>

SourcePool ==
    { SourceRecord(1, ANKING_MODEL_ID,
                   Flds(ImgA \o ClozeText, SoundB, 16, << >>), "t1"),
      SourceRecord(2, ANKING_MODEL_ID,
                   Flds(ImgC, ImgUpA, 17, << "p" >>), "t2"),
      SourceRecord(2, ANKING_MODEL_ID,
                   Flds(<< "&lt;" >> \o ImgC \o << "&gt;" >>, PlainField, 18,
                        TagP \o << " " >>), "t2b"),
      SourceRecord(3, OTHER_MODEL_ID,
                   Flds(ImgC, SoundB, 17, << "p" >>), "t3"),
      SourceRecord(4, ANKING_MODEL_ID,
                   Flds(ImgC, << >>, 1, << >>), "t4") }

MaxNotes == 2            \* records per generated notes table

\* the rows of a notes table, in rowid order
RECURSIVE TableOf(_)
TableOf(S) ==
    IF S = {} THEN << >>
    ELSE LET first == CHOOSE r \in S : \A q \in S : r.id <= q.id
         IN  << first >> \o TableOf(S \ {first})

Tables ==
    { TableOf(S) : S \in { T \in SUBSET SourcePool :
                             /\ Cardinality(T) <= MaxNotes
                             /\ \A r, q \in T : r.id = q.id => r = q } }

BaseTable == TableOf({ r \in SourcePool : r.tags \in {"t1", "t3"} })

LegacyTable == TableOf({ r \in SourcePool : r.tags = "t2b" })

MediaEntry(zstd_ok, bytes) == [zstd_ok |-> zstd_ok, bytes |-> bytes]

EntryA == Entry(TRUE, NameA, << >>)
EntryB == Entry(TRUE, NameB, SizeField)
EntryC == Entry(TRUE, NameC, << >>)
EntryUpA == Entry(TRUE, NameUpA, << >>)
EntryNoName == Entry(FALSE, << >>, SizeField)

MediaEntries ==
    { MediaEntry(TRUE, EncodeManifest(<< EntryA, EntryB >>)),
      MediaEntry(TRUE, EncodeManifest(<< EntryNoName, EntryA, EntryUpA >>)),
      MediaEntry(TRUE, EncodeManifest(<< EntryA, EntryC, EntryA >>)),
      MediaEntry(TRUE, << >>),
      MediaEntry(TRUE, EncodeManifest(<< EntryA >>) \o << TAG_FIELD1 >>),
      MediaEntry(TRUE, EncodeManifest(<< EntryB >>) \o << 0 >>),
      MediaEntry(FALSE, << >>) }

BaseMedia == MediaEntry(TRUE, EncodeManifest(<< EntryA, EntryB >>))

AllSlots == { "0", "1", "2" }

\* the bytes of the archive entry named by a slot number
Payload(slot) == "payload-" \o slot

Db21b(zstd_ok, query_ok, table) ==
    [zstd_ok |-> zstd_ok, query_ok |-> query_ok, notes |-> table]

Db2(query_ok, table) == [query_ok |-> query_ok, notes |-> table]

Archive(names, db21b, db2, media) ==
    [exists |-> TRUE, names |-> names, anki21b |-> db21b, anki2 |-> db2,
     media |-> media]

NoDb21b == Db21b(FALSE, FALSE, << >>)
NoDb2 == Db2(FALSE, << >>)

Archives ==
    { NoArchive,
      \* neither database entry
      Archive({"media"} \cup AllSlots, NoDb21b, NoDb2, BaseMedia),
      \* collection.anki21b is not a zstd frame
      Archive({"collection.anki21b", "media"} \cup AllSlots,
              Db21b(FALSE, FALSE, << >>), NoDb2, BaseMedia),
      \* collection.anki21b decompresses to a file without a notes table
      Archive({"collection.anki21b", "media"} \cup AllSlots,
              Db21b(TRUE, FALSE, << >>), NoDb2, BaseMedia),
      \* the legacy entry alone
      Archive({"collection.anki2", "media"} \cup AllSlots,
              NoDb21b, Db2(TRUE, BaseTable), BaseMedia),
      \* both entries: the newer one is preferred
      Archive({"collection.anki21b", "collection.anki2", "media"}
                  \cup AllSlots,
              Db21b(TRUE, TRUE, BaseTable), Db2(TRUE, LegacyTable), BaseMedia),
      \* no media entry
      Archive({"collection.anki21b"} \cup AllSlots,
              Db21b(TRUE, TRUE, BaseTable), NoDb2, MediaEntry(FALSE, << >>)) }
    \cup
    \* any notes table with any media manifest
    { Archive({"collection.anki21b", "media"} \cup AllSlots,
              Db21b(TRUE, TRUE, t), NoDb2, m) :
        t \in Tables, m \in MediaEntries }
    \cup
    \* the payload entry of slot 0 is missing from the archive
    { Archive({"collection.anki21b", "media"} \cup (AllSlots \ {"0"}),
              Db21b(TRUE, TRUE, BaseTable), NoDb2, m) :
        m \in MediaEntries }

(***************************************************************************)
(* main, one action per stage; the loops of main take one step per         *)
(* iteration.                                                              *)
(***************************************************************************)
LocalsReset ==
    /\ rows' = << >> /\ notes' = << >> /\ all_media_refs' = {}
    /\ referenced' = {} /\ unreferenced' = {} /\ copied' = {}
    /\ manifest' = EmptyDict /\ decompressed' = << >>
    /\ pos' = 0 /\ entry_idx' = 0

Init ==
    /\ pc = "Init" /\ failure = NoFailure
    /\ run = 1
    /\ archive \in Archives
    /\ tmp_files = EmptyDict
    /\ rows = << >> /\ notes = << >> /\ all_media_refs = {}
    /\ out_table = AbsentTable /\ media_dir = AbsentDir
    /\ stray_files = EmptyDict
    /\ referenced = {} /\ unreferenced = {} /\ copied = {}
    /\ out_table0 = AbsentTable /\ media_dir0 = AbsentDir
    /\ stray_files0 = EmptyDict
    /\ ParserIdle /\ ManifestHarnessIdle /\ VarintHarnessIdle
    /\ CleanHarnessIdle

\* (a main that prepares the media directory before it opens the archive)
MainStartClearsMedia ==
    /\ pc = "Init"
    /\ IF ~archive.exists
       THEN Raise("FileNotFoundError")
       ELSE pc' = "LoadContainer" /\ UNCHANGED failure
    /\ media_dir' = [exists |-> TRUE, files |-> EmptyDict]
    /\ UNCHANGED << input_vars, tmp_files, out_table, stray_files,
                    local_vars, parser_vars, harness_vars >>

\* if not APKG_PATH.exists(): raise ...; with zipfile.ZipFile(...) as zf:
MainStart ==
    /\ pc = "Init"
    /\ IF ~archive.exists
       THEN Raise("FileNotFoundError")
       ELSE pc' = "LoadContainer" /\ UNCHANGED failure
    /\ UNCHANGED << input_vars, tmp_files, output_vars, local_vars,
                    parser_vars, harness_vars >>

DictRemove(d, k) == [x \in DOMAIN d \ {k} |-> d[x]]

EmptyFile == [query_ok |-> FALSE, notes |-> << >>]

\* extract_collection_db(zf): the temporary file is created first
ExtractCollectionDb ==
    /\ pc = "LoadContainer"
    /\ IF "collection.anki21b" \in archive.names
       THEN IF archive.anki21b.zstd_ok
            THEN /\ tmp_files' =
                      DictSet(tmp_files, run,
                              [query_ok |-> archive.anki21b.query_ok,
                               notes |-> archive.anki21b.notes])
                 /\ pc' = "QueryRecords" /\ UNCHANGED failure
            ELSE /\ tmp_files' = DictSet(tmp_files, run, EmptyFile)
                 /\ Raise("ZstdError")
       ELSE IF "collection.anki2" \in archive.names
       THEN /\ tmp_files' = DictSet(tmp_files, run, archive.anki2)
            /\ pc' = "QueryRecords" /\ UNCHANGED failure
       ELSE /\ tmp_files' = DictRemove(tmp_files, run)
            /\ Raise("ValueError")
    /\ UNCHANGED << input_vars, output_vars, local_vars, parser_vars,
                    harness_vars >>

\* (a query that forgets the WHERE clause)
SelectAllNotes(table) == table

\* SELECT id, flds, tags FROM notes WHERE mid = ANKING_MODEL_ID
SelectNotes(table) == SelectSeq(table, LAMBDA r : r.mid = ANKING_MODEL_ID)

\* the try/finally around the query: the temporary file is unlinked on
\* both paths
QueryRecords ==
    /\ pc = "QueryRecords"
    /\ IF tmp_files[run].query_ok
       THEN /\ rows' = SelectNotes(tmp_files[run].notes)
            /\ pc' = "TransformAll" /\ UNCHANGED failure
       ELSE /\ rows' = rows
            /\ Raise("sqlite3.DatabaseError")
    /\ tmp_files' = DictRemove(tmp_files, run)
    /\ UNCHANGED << input_vars, output_vars, notes, all_media_refs,
                    referenced, unreferenced, copied, parser_vars,
                    harness_vars >>

Note(id, text, extra, num_cards, one_by_one, tags) ==
    [id |-> id, text |-> text, extra |-> extra, num_cards |-> num_cards,
     one_by_one |-> one_by_one, tags |-> tags]

\* raw_one_by_one = fields[IDX_ONE_BY_ONE] if len(fields) > IDX_ONE_BY_ONE
\*                  else ""
RawOneByOne(fields) ==
    IF Len(fields) > IDX_ONE_BY_ONE THEN fields[IDX_ONE_BY_ONE + 1]
    ELSE << >>

\* the body of the for loop over rows, for a record with two fields or more
TransformRecord(rec) ==
    LET fields == rec.flds
        raw_text == fields[IDX_TEXT + 1]
        raw_extra == fields[IDX_EXTRA + 1]
    IN  Note(rec.id, clean_text(raw_text), clean_text(raw_extra),
             count_cloze_numbers(raw_text),
             IF is_one_by_one_truthy(RawOneByOne(fields)) THEN 1 ELSE 0,
             rec.tags)

RecordMediaRefs(rec) ==
    LET raw_text == rec.flds[IDX_TEXT + 1]
        raw_extra == rec.flds[IDX_EXTRA + 1]
    IN  collect_media_refs(clean_text(raw_text), clean_text(raw_extra))
            \cup collect_media_refs(raw_text, raw_extra)

\* one iteration of `for note_id, flds, tags in rows`; fields[IDX_EXTRA]
\* raises IndexError on a record with a single field
TransformNote ==
    /\ pc = "TransformAll"
    /\ rows # << >>
    /\ IF Len(Head(rows).flds) <= IDX_EXTRA
       THEN /\ Raise("IndexError")
            /\ UNCHANGED << rows, notes, all_media_refs >>
       ELSE /\ notes' = Append(notes, TransformRecord(Head(rows)))
            /\ all_media_refs' =
                   all_media_refs \cup RecordMediaRefs(Head(rows))
            /\ rows' = Tail(rows)
            /\ UNCHANGED << pc, failure >>
    /\ UNCHANGED << input_vars, tmp_files, output_vars, referenced,
                    unreferenced, copied, parser_vars, harness_vars >>

TransformEnd ==
    /\ pc = "TransformAll"
    /\ rows = << >>
    /\ pc' = "WriteNotes"
    /\ UNCHANGED << failure, input_vars, tmp_files, output_vars, local_vars,
                    parser_vars, harness_vars >>

Range(f) == { f[x] : x \in DOMAIN f }

\* DROP TABLE IF EXISTS; CREATE TABLE; INSERT ...; commit
ReplaceTable(old, new_notes) == [exists |-> TRUE, rows |-> Range(new_notes)]

WriteNotes ==
    /\ pc = "WriteNotes"
    /\ out_table' = ReplaceTable(out_table, notes)
    /\ pc' = "ReadManifest"
    /\ UNCHANGED << failure, input_vars, tmp_files, media_dir, stray_files,
                    local_vars, parser_vars, harness_vars >>

\* zf.read("media"), then pyzstd.decompress at the top of
\* parse_media_manifest
ReadManifest ==
    /\ pc = "ReadManifest"
    /\ IF "media" \notin archive.names
       THEN Raise("KeyError") /\ UNCHANGED parser_vars
       ELSE IF ~archive.media.zstd_ok
       THEN Raise("ZstdError") /\ UNCHANGED parser_vars
       ELSE /\ decompressed' = archive.media.bytes
            /\ manifest' = EmptyDict /\ pos' = 0 /\ entry_idx' = 0
            /\ pc' = "DecodeManifest" /\ UNCHANGED failure
    /\ UNCHANGED << input_vars, tmp_files, output_vars, local_vars,
                    harness_vars >>

SlotNumber(k) == CHOOSE i \in 0..9 : ToString(i) = k

\* {v: k for k, v in manifest.items()}: the dict is walked in insertion
\* order, so the last slot holding a filename is the one kept
FilenameToEntry(man) ==
    [f \in Range(man) |->
        CHOOSE k \in DOMAIN man :
            /\ man[k] = f
            /\ \A j \in DOMAIN man :
                  man[j] = f => SlotNumber(j) <= SlotNumber(k)]

\* (a resolver that forgets the intersection with the manifest)
ResolvedUnfiltered(refs, names) == refs

\* all_media_refs & set(filename_to_entry.keys())
Resolved(refs, names) == refs \cap names

\* all_media_refs - set(filename_to_entry.keys())
Unresolved(refs, names) == refs \ names

ResolveMedia ==
    /\ pc = "ResolveMedia"
    /\ referenced' = Resolved(all_media_refs, DOMAIN FilenameToEntry(manifest))
    /\ unreferenced' =
           Unresolved(all_media_refs, DOMAIN FilenameToEntry(manifest))
    /\ pc' = "ClearMedia"
    /\ UNCHANGED << failure, input_vars, tmp_files, output_vars, rows, notes,
                    all_media_refs, copied, parser_vars, harness_vars >>

\* if MEDIA_DIR.exists(): shutil.rmtree(MEDIA_DIR); MEDIA_DIR.mkdir()
ClearMedia ==
    /\ pc = "ClearMedia"
    /\ media_dir' = [exists |-> TRUE, files |-> EmptyDict]
    /\ pc' = "CopyMedia"
    /\ UNCHANGED << failure, input_vars, tmp_files, out_table, stray_files,
                    local_vars, parser_vars, harness_vars >>

\* MEDIA_DIR / filename: a filename that climbs out with ".." names a file
\* of OUTPUT_DIR, the parent of MEDIA_DIR
EscapesMediaDir(filename) == filename = "../a"

NameInParent(filename) == CASE filename = "../a" -> "a"

\* one iteration of `for filename in referenced`, in the arbitrary order of
\* a set
CopyOne ==
    /\ pc = "CopyMedia"
    /\ \E filename \in referenced \ copied :
         LET entry_num == FilenameToEntry(manifest)[filename] IN
         IF entry_num \notin archive.names
         THEN /\ Raise("KeyError")
              /\ UNCHANGED << media_dir, stray_files, copied >>
         ELSE /\ IF EscapesMediaDir(filename)
                 THEN /\ stray_files' =
                            DictSet(stray_files, NameInParent(filename),
                                    Payload(entry_num))
                      /\ UNCHANGED media_dir
                 ELSE /\ media_dir' =
                            [media_dir EXCEPT !.files =
                                DictSet(@, filename, Payload(entry_num))]
                      /\ UNCHANGED stray_files
              /\ copied' = copied \cup {filename}
              /\ UNCHANGED << pc, failure >>
    /\ UNCHANGED << input_vars, tmp_files, out_table, rows, notes,
                    all_media_refs, referenced, unreferenced, parser_vars,
                    harness_vars >>

CopyEnd ==
    /\ pc = "CopyMedia"
    /\ referenced \ copied = {}
    /\ pc' = "Done"
    /\ UNCHANGED << failure, input_vars, tmp_files, output_vars, local_vars,
                    parser_vars, harness_vars >>

\* main is run again, on any archive; what the previous run left on disk
\* is what this run starts from
NextRun ==
    /\ pc \in {"Done", "Failed"}
    /\ run < MaxRuns
    /\ run' = run + 1
    /\ archive' \in Archives
    /\ pc' = "Init" /\ failure' = NoFailure
    /\ out_table0' = out_table /\ media_dir0' = media_dir
    /\ stray_files0' = stray_files
    /\ LocalsReset
    /\ UNCHANGED << tmp_files, output_vars, harness_vars >>

Next ==
    \/ MainStart
    \/ ExtractCollectionDb
    \/ QueryRecords
    \/ TransformNote
    \/ TransformEnd
    \/ WriteNotes
    \/ ReadManifest
    \/ ParseStep
    \/ ParseEnd
    \/ ResolveMedia
    \/ ClearMedia
    \/ CopyOne
    \/ CopyEnd
    \/ NextRun

Spec == Init /\ [][Next]_vars

(***************************************************************************)
(* What the claims about main speak of.                                    *)
(***************************************************************************)
\* the notes table of the database entry this run reads
TableRead ==
    IF "collection.anki21b" \in archive.names THEN archive.anki21b.notes
    ELSE archive.anki2.notes

KnownTypeRecords == { s \in Range(TableRead) : s.mid = ANKING_MODEL_ID }

NoDbEntry ==
    /\ archive.exists
    /\ "collection.anki21b" \notin archive.names
    /\ "collection.anki2" \notin archive.names

PostWriteStages ==
    { "ReadManifest", "DecodeManifest", "ResolveMedia", "ClearMedia",
      "CopyMedia", "Done" }

\* the current run has completed its WriteNotes stage
PastWriteNotes ==
    \/ pc \in PostWriteStages
    \/ pc = "Failed" /\ failure.stage \in PostWriteStages

PostResolveStages == { "ClearMedia", "CopyMedia", "Done" }

\* the current run has completed its ResolveMedia stage, or died in it
PastResolveMedia ==
    \/ pc \in PostResolveStages
    \/ pc = "Failed" /\ failure.stage \in PostResolveStages \cup {"ResolveMedia"}

(***************************************************************************)
(* C1: on an archive with neither database entry the run aborts in         *)
(* LoadContainer, and the output table, the media directory and the rest   *)
(* of the output directory are what they were when the run started.        *)
(***************************************************************************)
C1_NoDatabaseAbortsBeforeOutput ==
    NoDbEntry =>
        /\ out_table = out_table0
        /\ media_dir = media_dir0
        /\ stray_files = stray_files0
        /\ pc \in {"Init", "LoadContainer", "Failed"}
        /\ pc = "Failed" =>
              failure = [exc |-> "ValueError", stage |-> "LoadContainer"]

C1_Witness ==
    /\ NoDbEntry
    /\ pc = "Failed"
    /\ run = 2
    /\ out_table.exists /\ out_table.rows # {}
    /\ media_dir.exists /\ DOMAIN media_dir.files # {}

(***************************************************************************)
(* C2 (as claimed): the temporary database file exists only during the     *)
(* QueryRecords stage of the run that created it; on no exit path does it  *)
(* outlive the run.                                                        *)
(***************************************************************************)
C2_TempFileNeverLeaks ==
    DOMAIN tmp_files \subseteq (IF pc = "QueryRecords" THEN {run} ELSE {})

(***************************************************************************)
(* C3 (as claimed): when a run reaches Done, the media directory holds     *)
(* exactly the referenced filenames the manifest lists, each with the      *)
(* payload of a manifest slot of that filename.                            *)
(***************************************************************************)
C3_MediaDirIsResolvedSet ==
    pc = "Done" =>
        /\ media_dir.exists
        /\ DOMAIN media_dir.files = all_media_refs \cap Range(manifest)
        /\ \A f \in DOMAIN media_dir.files :
              \E k \in DOMAIN manifest :
                 manifest[k] = f /\ media_dir.files[f] = Payload(k)

(***************************************************************************)
(* C4: resolved = R \cap F and unresolved = R \ F, which partition R; a    *)
(* run that got as far as ResolveMedia ends in Done with every resolved    *)
(* filename copied, whatever is unresolved, unless the archive lacks the   *)
(* payload entry of a resolved filename.                                   *)
(***************************************************************************)
C4_UnresolvedIsNotFatal ==
    PastResolveMedia =>
        /\ referenced = all_media_refs \cap Range(manifest)
        /\ unreferenced = all_media_refs \ Range(manifest)
        /\ referenced \cap unreferenced = {}
        /\ referenced \cup unreferenced = all_media_refs
        /\ copied \subseteq referenced
        /\ pc = "Done" => copied = referenced
        /\ pc = "Failed" =>
              /\ failure = [exc |-> "KeyError", stage |-> "CopyMedia"]
              /\ \E f \in referenced \ copied :
                    FilenameToEntry(manifest)[f] \notin archive.names

C4_Witness ==
    /\ pc = "Done"
    /\ unreferenced # {}
    /\ referenced # {}
    /\ copied = referenced

(***************************************************************************)
(* C7 (as claimed): a record with fewer fields than the marker index, for  *)
(* any such count, is transformed without error and with one_by_one false. *)
(***************************************************************************)
C7_ShortRecordsTolerated ==
    /\ ~(pc = "Failed" /\ failure.stage = "TransformAll")
    /\ \A i \in 1..Len(notes) :
          \A s \in KnownTypeRecords :
             (s.id = notes[i].id /\ Len(s.flds) <= IDX_ONE_BY_ONE)
                 => notes[i].one_by_one = 0

(***************************************************************************)
(* C8: once a run is past WriteNotes, source_notes holds exactly one row   *)
(* for each record of the known note type that this run read, built from   *)
(* that record, and nothing else.                                          *)
(***************************************************************************)
C8_TableIsThisRunsNotes ==
    PastWriteNotes =>
        /\ out_table.exists
        /\ { r.id : r \in out_table.rows } = { s.id : s \in KnownTypeRecords }
        /\ Cardinality(out_table.rows) = Cardinality(KnownTypeRecords)
        /\ \A r \in out_table.rows :
              \E s \in KnownTypeRecords : s.id = r.id /\ s.tags = r.tags

C8_Witness ==
    /\ PastWriteNotes
    /\ run = 2
    /\ out_table0.rows # {}
    /\ out_table.rows # {}
    /\ \E r \in out_table0.rows : r \notin out_table.rows
    /\ \E s \in Range(TableRead) : s.mid # ANKING_MODEL_ID

====
